---- MODULE Spec2Model ----
(***************************************************************************)
(* Model of nextjs16-migrator: the compatibility analyzer, the rewrite     *)
(* engine, the backup manager and the migrate command that sequences them. *)
(*                                                                         *)
(* A file's text is modelled by the set of syntactic features it contains  *)
(* (a one-argument revalidateTag call, an import of next/legacy/image, a   *)
(* member access on params, ...).  The analyzer's substring tests and the  *)
(* engine's AST rewrites are both defined on these features, so detection  *)
(* and rewriting stay independent, as they are in the code.                *)
(***************************************************************************)
EXTENDS Integers, Sequences, FiniteSets, TLC

VARIABLES
    files,          \* working tree: file name -> content, for the files that exist
    nodeMajor,      \* major version of the host runtime (process.version)
    isRepo,         \* git.checkIsRepo()
    storeIgnored,   \* .nextjs16-migrator is matched by .gitignore
    commits,        \* git object store: every commit made, as the tree it recorded
    head,           \* the commit the branch points to (0: no commit yet)
    metadataExists, \* backups/metadata.json exists
    metadata,       \* content of metadata.json: sequence of Backup, newest first
    backupDirs,     \* per-snapshot directories: backup id -> (file name -> content)
    now,            \* Date.now()
    pc,             \* position of migrateCommand
    opts,           \* MigrateOptions of the running command
    analysis,       \* the ProjectAnalysis migrateCommand computed in step 1
    queue,          \* MigrationEngine.migrate: file records still to process
    result,         \* MigrationEngine.migrate: the MigrationResult being built
    outcome,        \* how the last command or call ended
    log,            \* what the last command or call did (calls made, warnings, writes)
    pre,            \* the tree, catalog and history when the last command or call began
    created,        \* every Backup saved by createBackup with the tree it was taken
                    \* of, oldest first
    ops,            \* number of calls made so far (bounds the exploration)
    reports,        \* the reports ProjectAnalyzer.analyze has returned, oldest first
    inflight        \* the transformFile calls that have not ended: path -> activation

vars == <<files, nodeMajor, isRepo, storeIgnored, commits, head, metadataExists, metadata,
          backupDirs, now, pc, opts, analysis, queue, result, outcome, log, pre,
          created, ops, reports, inflight>>

(***************************************************************************)
(* Bounds of the exploration.                                              *)
(***************************************************************************)
MaxCreates == 11    \* calls in SpecCatalog and SpecCleanup
MaxOps == 4         \* calls in SpecBackup
MaxAnalyses == 2    \* analyze calls in SpecAnalyze
MaxFiles == 52      \* file records of an analysis in SpecComplexity
MaxIssues == 7      \* issues of an analysis in SpecComplexity

(***************************************************************************)
(* Program constants.                                                      *)
(***************************************************************************)
CatalogCap == 10
MinNextMajor == 14
MinNodeMajor == 20

(***************************************************************************)
(* File contents.                                                          *)
(***************************************************************************)
NoNext == [pre |-> "", parts |-> <<>>]

Src(feats) == [feats |-> feats, next |-> NoNext, deps |-> {}]

Manifest(next, deps) == [feats |-> {}, next |-> next, deps |-> deps]

Ver(prefix, parts) == [pre |-> prefix, parts |-> parts]

EmptyTree == <<>>

\* fs-extra copy of one file into a directory or tree (overwrites)
CopyInto(dir, name, content) == (name :> content) @@ dir

\* the part of a tree outside the names in S
Without(tree, S) == [f \in (DOMAIN tree) \ S |-> tree[f]]

\* the part of a tree inside the names in S
Within(tree, S) == [f \in (DOMAIN tree) \cap S |-> tree[f]]

(***************************************************************************)
(* ProjectAnalyzer (src/analyzers/compatibility.ts).                       *)
(***************************************************************************)

\* Features whose printed text contains the given substring: content.includes(sub)
Mentions(sub) ==
    CASE sub = "revalidateTag"      -> {"revalidateTag(x)", "revalidateTag(x,'max')"}
      [] sub = "revalidateTag("     -> {"revalidateTag(x)", "revalidateTag(x,'max')"}
      [] sub = "cacheLife"          -> {"cacheLife"}
      [] sub = "next/image"         -> {"import 'next/image'"}
      [] sub = "next/legacy/image"  -> {"import 'next/legacy/image'"}
      [] sub = "params"             -> {"params.id", "{ params }", "(await params).id"}
      [] sub = "await params"       -> {"(await params).id"}
      [] sub = "searchParams"       -> {"searchParams.q", "{ searchParams }",
                                        "(await searchParams).q"}
      [] sub = "await searchParams" -> {"(await searchParams).q"}
      [] sub = "cookies()"          -> {"cookies()", "await cookies()"}
      [] sub = "await cookies()"    -> {"await cookies()"}
      [] sub = "headers()"          -> {"headers()", "await headers()"}
      [] sub = "await headers()"    -> {"await headers()"}
      [] OTHER                      -> {}

Includes(content, sub) == content.feats \cap Mentions(sub) # {}

\* the tags in the order analyzeFile pushes them
TagOrder == <<"middleware-to-proxy", "update-revalidate-tag", "add-cache-life-profile",
              "update-next-image", "make-params-async", "make-search-params-async",
              "make-cookies-headers-async">>

\* the condition under which analyzeFile pushes a tag
Detects(tag, path, content) ==
    CASE tag = "middleware-to-proxy" ->
            path = "middleware.ts" \/ path = "middleware.js"
      [] tag = "update-revalidate-tag" ->
            Includes(content, "revalidateTag") /\ ~Includes(content, "cacheLife")
      [] tag = "add-cache-life-profile" ->
            Includes(content, "revalidateTag(") /\ ~Includes(content, "revalidateTag(")
      [] tag = "update-next-image" ->
            Includes(content, "next/image") \/ Includes(content, "next/legacy/image")
      [] tag = "make-params-async" ->
            Includes(content, "params") /\ ~Includes(content, "await params")
      [] tag = "make-search-params-async" ->
            Includes(content, "searchParams") /\ ~Includes(content, "await searchParams")
      [] tag = "make-cookies-headers-async" ->
            /\ Includes(content, "cookies()") \/ Includes(content, "headers()")
            /\ ~Includes(content, "await cookies()")
            /\ ~Includes(content, "await headers()")

getFileType(path) ==
    CASE path \in {"middleware.ts", "middleware.js", "proxy.ts"} -> "middleware"
      [] path \in {"next.config.js", "next.config.ts", "next.config.mjs"} -> "config"
      [] path \in {"pages/about.amp.tsx", "app/page.tsx"} -> "component"
      [] OTHER -> "other"

analyzeFile(path, content) ==
    [path |-> path,
     type |-> getFileType(path),
     transformations |-> SelectSeq(TagOrder, LAMBDA t : Detects(t, path, content))]

\* the modelled files the glob patterns match, in the order the patterns visit them
ScanOrder ==
    <<"middleware.ts", "middleware.js", "next.config.js", "next.config.ts",
      "next.config.mjs", "pages/about.amp.tsx", "app/page.tsx">>

RECURSIVE findFilesToTransform(_, _)
findFilesToTransform(tree, names) ==
    IF names = <<>> THEN <<>>
    ELSE LET f == Head(names)
             rest == findFilesToTransform(tree, Tail(names))
         IN  IF f \notin DOMAIN tree THEN rest
             ELSE LET fa == analyzeFile(f, tree[f])
                  IN  IF Len(fa.transformations) > 0 THEN <<fa>> \o rest ELSE rest

\* version.match(/(\d+)\.(\d+)\.(\d+)/): the first three dot-separated numbers
parseVersion(version) ==
    IF Len(version.parts) >= 3
    THEN [major |-> version.parts[1], minor |-> version.parts[2],
          patch |-> version.parts[3]]
    ELSE [major |-> 0, minor |-> 0, patch |-> 0]

Issue(kind, ver, dep) == [kind |-> kind, ver |-> ver, dep |-> dep]

ProblematicDeps == <<"next-amp", "next-pwa", "next-seo">>

analyzePackageJson(tree) ==
    IF "package.json" \notin DOMAIN tree
    THEN [isCompatible |-> FALSE, currentVersion |-> NoNext,
          issues |-> <<Issue("No package.json found", NoNext, "")>>,
          recommendations |-> <<>>]
    ELSE LET pkg == tree["package.json"]
             tooOld == parseVersion(pkg.next).major < MinNextMajor
             versionIssues ==
                 IF pkg.next # NoNext
                 THEN IF tooOld THEN <<Issue("Next.js version is too old", pkg.next, "")>>
                      ELSE <<>>
                 ELSE <<Issue("Next.js not found in dependencies", NoNext, "")>>
             found == SelectSeq(ProblematicDeps, LAMBDA d : d \in pkg.deps)
         IN  [isCompatible |-> pkg.next # NoNext /\ ~tooOld,
              currentVersion |-> pkg.next,
              issues |-> versionIssues \o
                  [i \in 1..Len(found) |->
                      Issue("Dependency may not be compatible", NoNext, found[i])],
              recommendations |->
                  [i \in 1..Len(found) |->
                      Issue("Consider updating or removing", NoNext, found[i])]]

\* the modelled names that glob('**/*.amp.*') and glob('next.config.*') match
AmpFiles == {"pages/about.amp.tsx"}

ConfigFiles == <<"next.config.js", "next.config.mjs", "next.config.ts">>

checkCompatibility(tree, node) ==
    LET amp == IF AmpFiles \cap DOMAIN tree # {}
               THEN <<"AMP support has been removed in Next.js 16">> ELSE <<>>
        ampRec == IF AmpFiles \cap DOMAIN tree # {}
                  THEN <<"Remove AMP files and configurations">> ELSE <<>>
        ppr == SelectSeq(ConfigFiles,
                   LAMBDA c : c \in DOMAIN tree /\ "experimental.ppr" \in tree[c].feats)
        nodeIssue == IF node < MinNodeMajor
                     THEN <<"Node.js is not supported">> ELSE <<>>
        kinds == amp
                 \o [i \in 1..Len(ppr) |->
                        "experimental.ppr flag has been removed in Next.js 16"]
                 \o nodeIssue
        recs == ampRec
                \o [i \in 1..Len(ppr) |-> "Use cacheComponents configuration instead"]
    IN  [isCompatible |-> ~(node < MinNodeMajor),
         issues |-> [i \in 1..Len(kinds) |-> Issue(kinds[i], NoNext, "")],
         recommendations |-> [i \in 1..Len(recs) |-> Issue(recs[i], NoNext, "")]]

\* thresholds that include their bound
calculateComplexityInclusive(fileCount, issueCount) ==
    IF fileCount >= 50 \/ issueCount >= 5
    THEN [complexity |-> "high", estimatedTime |-> "30-60 minutes"]
    ELSE IF fileCount >= 20 \/ issueCount >= 2
    THEN [complexity |-> "medium", estimatedTime |-> "15-30 minutes"]
    ELSE [complexity |-> "low", estimatedTime |-> "5-15 minutes"]

calculateComplexity(fileCount, issueCount) ==
    IF fileCount > 50 \/ issueCount > 5
    THEN [complexity |-> "high", estimatedTime |-> "30-60 minutes"]
    ELSE IF fileCount > 20 \/ issueCount > 2
    THEN [complexity |-> "medium", estimatedTime |-> "15-30 minutes"]
    ELSE [complexity |-> "low", estimatedTime |-> "5-15 minutes"]

NoAnalysis ==
    [isCompatible |-> FALSE, currentVersion |-> NoNext, filesToTransform |-> <<>>,
     issues |-> <<>>, recommendations |-> <<>>, complexity |-> "low",
     estimatedTime |-> "5-10 minutes"]

\* a path whose read rejects: a directory that a pattern matches, or a file the
\* process may not read
Unreadable == Src({"EACCES"})

\* fs.readFile(path, 'utf-8') rejects
readFileFails(content) == "EACCES" \in content.feats

\* fs.readJson(path) rejects: the read or JSON.parse fails
readJsonFails(content) == readFileFails(content) \/ "syntax error" \in content.feats

\* an analyzer that goes on with the object of its previous call
keptAnalysis(previous) == previous

\* the object analyze starts from; currentVersion 'unknown' is the absent version
newAnalysis(previous) ==
    [isCompatible |-> TRUE, currentVersion |-> NoNext, filesToTransform |-> <<>>,
     issues |-> <<>>, recommendations |-> <<>>, complexity |-> "low",
     estimatedTime |-> "5-10 minutes"]

\* the four steps of analyze as updates of the analysis object; a step only ever
\* assigns false to isCompatible and only ever pushes to the lists
withPackageJson(a, tree) ==
    LET p == analyzePackageJson(tree)
    IN  [a EXCEPT !.isCompatible = IF p.isCompatible THEN @ ELSE FALSE,
                  !.currentVersion = IF p.currentVersion # NoNext
                                     THEN p.currentVersion ELSE @,
                  !.issues = @ \o p.issues,
                  !.recommendations = @ \o p.recommendations]

withFilesToTransform(a, tree) ==
    [a EXCEPT !.filesToTransform = @ \o findFilesToTransform(tree, ScanOrder)]

\* a compatibility step that assigns its own verdict to isCompatible
withCompatibilityAssigns(a, tree, node) ==
    LET c == checkCompatibility(tree, node)
    IN  [a EXCEPT !.isCompatible = c.isCompatible,
                  !.issues = @ \o c.issues,
                  !.recommendations = @ \o c.recommendations]

withCompatibility(a, tree, node) ==
    LET c == checkCompatibility(tree, node)
    IN  [a EXCEPT !.isCompatible = IF c.isCompatible THEN @ ELSE FALSE,
                  !.issues = @ \o c.issues,
                  !.recommendations = @ \o c.recommendations]

withComplexity(a) ==
    LET cx == calculateComplexity(Len(a.filesToTransform), Len(a.issues))
    IN  [a EXCEPT !.complexity = cx.complexity, !.estimatedTime = cx.estimatedTime]

\* the conditions under which a step rejects; nothing in analyze catches
\* a manifest step that rejects when there is no manifest to read
missingManifestThrows(tree) ==
    "package.json" \notin DOMAIN tree \/ readJsonFails(tree["package.json"])

analyzePackageJsonThrows(tree) ==
    "package.json" \in DOMAIN tree /\ readJsonFails(tree["package.json"])

findFilesToTransformThrows(tree) ==
    \E i \in 1..Len(ScanOrder) :
        ScanOrder[i] \in DOMAIN tree /\ readFileFails(tree[ScanOrder[i]])

checkCompatibilityThrows(tree) ==
    \E i \in 1..Len(ConfigFiles) :
        ConfigFiles[i] \in DOMAIN tree /\ readFileFails(tree[ConfigFiles[i]])

analyzeThrows(tree) ==
    \/ analyzePackageJsonThrows(tree)
    \/ findFilesToTransformThrows(tree)
    \/ checkCompatibilityThrows(tree)

\* the report analyze returns when no step rejects
analyze(tree, node) ==
    withComplexity(
        withCompatibility(
            withFilesToTransform(
                withPackageJson(newAnalysis(NoAnalysis), tree),
                tree),
            tree, node))

(***************************************************************************)
(* MigrationEngine (transformers/engine.ts).                               *)
(***************************************************************************)

Replace(feats, old, new) == IF old \in feats THEN (feats \ {old}) \cup {new} ELSE feats

\* the features that are an await expression
AwaitFeatures ==
    {"(await params).id", "(await searchParams).q", "await cookies()",
     "await headers()", "(await cookies)()", "(await headers)()",
     "await (await cookies)()", "await (await headers)()"}

\* j(fileInfo.source) throws on text the tsx parser rejects: text with a syntax
\* error, and an await expression in a function that is not async
Parses(content) ==
    /\ "syntax error" \notin content.feats
    /\ ~("function Page() (not async)" \in content.feats
          /\ content.feats \cap AwaitFeatures # {})

transformMiddlewareToProxy(content) ==
    [content EXCEPT !.feats = Replace(@, "export default function middleware",
                                         "export default function proxy")]

updateRevalidateTag(content) ==
    [content EXCEPT !.feats = Replace(@, "revalidateTag(x)", "revalidateTag(x,'max')")]

addCacheLifeProfile(content) == content

updateNextImage(content) ==
    [content EXCEPT !.feats = Replace(@, "import 'next/legacy/image'", "import 'next/image'")]

makeParamsAsync(content) ==
    [content EXCEPT !.feats = Replace(@, "params.id", "(await params).id")]

makeSearchParamsAsync(content) ==
    [content EXCEPT !.feats = Replace(@, "searchParams.q", "(await searchParams).q")]

makeCookiesHeadersAsync(content) ==
    [content EXCEPT !.feats =
        Replace(Replace(Replace(Replace(@,
            "cookies()", "(await cookies)()"),
            "headers()", "(await headers)()"),
            "await cookies()", "await (await cookies)()"),
            "await headers()", "await (await headers)()")]

\* the transformer registered under a tag by initializeTransformations
Transformer(tag, content) ==
    CASE tag = "middleware-to-proxy"        -> transformMiddlewareToProxy(content)
      [] tag = "update-revalidate-tag"      -> updateRevalidateTag(content)
      [] tag = "add-cache-life-profile"     -> addCacheLifeProfile(content)
      [] tag = "update-next-image"          -> updateNextImage(content)
      [] tag = "make-params-async"          -> makeParamsAsync(content)
      [] tag = "make-search-params-async"   -> makeSearchParamsAsync(content)
      [] tag = "make-cookies-headers-async" -> makeCookiesHeadersAsync(content)

\* whether the transformer registered under a tag throws on a text
TransformerThrows(tag, content) ==
    tag # "add-cache-life-profile" /\ ~Parses(content)

getTransformationDescription(tag) ==
    CASE tag = "middleware-to-proxy"        -> "Convert middleware.ts to proxy.ts"
      [] tag = "update-revalidate-tag"      -> "Update revalidateTag calls with cacheLife profile"
      [] tag = "add-cache-life-profile"     -> "Add cacheLife profile to revalidateTag"
      [] tag = "update-next-image"          -> "Update next/image imports and usage"
      [] tag = "make-params-async"          -> "Make params usage async"
      [] tag = "make-search-params-async"   -> "Make searchParams usage async"
      [] tag = "make-cookies-headers-async" -> "Make cookies/headers usage async"
      [] OTHER                              -> tag

Change(path, tag) ==
    [file |-> path, description |-> getTransformationDescription(tag),
     type |-> "transformation"]

\* the loop of transformFile over the file's tags: the text after the tags that ran,
\* the tags that ran, and the tag that threw ("" when none did)
RECURSIVE applyTransformations(_, _)
applyTransformations(content, tags) ==
    IF tags = <<>> THEN [source |-> content, applied |-> <<>>, failedAt |-> ""]
    ELSE IF TransformerThrows(Head(tags), content)
    THEN [source |-> content, applied |-> <<>>, failedAt |-> Head(tags)]
    ELSE LET r == applyTransformations(Transformer(Head(tags), content), Tail(tags))
         IN  [r EXCEPT !.applied = <<Head(tags)>> \o @]

\* a write of every file whose tags were applied
alwaysWrite(transformedSource, source) == TRUE

\* if (transformedSource !== source)
mustWrite(transformedSource, source) == transformedSource # source

\* transformFile: the tree it leaves, the changes it returns, and whether it threw
transformFile(tree, fileToTransform) ==
    LET path == fileToTransform.path IN
    IF path \notin DOMAIN tree
    THEN [tree |-> tree, changes |-> <<>>, threw |-> TRUE, message |-> "File not found",
          wrote |-> {}, ran |-> <<>>]
    ELSE LET source == tree[path]
             r == applyTransformations(source, fileToTransform.transformations)
         IN  IF r.failedAt # ""
             THEN [tree |-> tree, changes |-> <<>>, threw |-> TRUE,
                   message |-> r.failedAt, wrote |-> {}, ran |-> r.applied]
             ELSE [tree |-> IF mustWrite(r.source, source)
                            THEN CopyInto(tree, path, r.source)
                            ELSE tree,
                   changes |-> [i \in 1..Len(r.applied) |-> Change(path, r.applied[i])],
                   threw |-> FALSE, message |-> "",
                   wrote |-> IF mustWrite(r.source, source) THEN {path} ELSE {},
                   ran |-> r.applied]

\* a preview that lists one change per file record, for its first tag
describeFirst(f) == <<Change(f.path, f.transformations[1])>>

\* the inner loop of previewChanges: one change per tag of the file record
describe(f) ==
    [i \in 1..Len(f.transformations) |-> Change(f.path, f.transformations[i])]

\* previewChanges: the tree it leaves, the changes it returns and the rules it ran
\* (as pairs of file and tag)
RECURSIVE describeAll(_)
describeAll(fileRecords) ==
    IF fileRecords = <<>> THEN <<>>
    ELSE describe(Head(fileRecords)) \o describeAll(Tail(fileRecords))

\* a preview that runs the engine on the first file record
previewChangesRunsEngine(tree, node) ==
    LET fl == analyze(tree, node).filesToTransform
        r == transformFile(tree, fl[1])
    IN  IF fl = <<>>
        THEN [tree |-> tree, changes |-> <<>>, wrote |-> {}, ran |-> {}]
        ELSE [tree |-> r.tree, changes |-> describeAll(fl), wrote |-> r.wrote,
              ran |-> {<<fl[1].path, r.ran[i]>> : i \in 1..Len(r.ran)}]

previewChanges(tree, node) ==
    [tree |-> tree,
     changes |-> describeAll(analyze(tree, node).filesToTransform),
     wrote |-> {}, ran |-> {}]

EmptyResult == [successful |-> 0, failed |-> 0, changes |-> <<>>, errors |-> <<>>]

\* a loop body that counts the file as successful before transformFile has ended
migrateOneCountsEarly(res, fileToTransform, fileResult) ==
    IF ~fileResult.threw
    THEN [res EXCEPT !.successful = @ + 1, !.changes = @ \o fileResult.changes]
    ELSE [res EXCEPT !.successful = @ + 1,
                     !.failed = @ + 1,
                     !.errors = Append(@, [file |-> fileToTransform.path,
                                           message |-> fileResult.message])]

\* the body of migrate's loop for one file record
migrateOne(res, fileToTransform, fileResult) ==
    IF ~fileResult.threw
    THEN [res EXCEPT !.successful = @ + 1, !.changes = @ \o fileResult.changes]
    ELSE [res EXCEPT !.failed = @ + 1,
                     !.errors = Append(@, [file |-> fileToTransform.path,
                                           message |-> fileResult.message])]

\* a loop that gives up at the first file that throws
afterFailureAborts(remaining) == <<>>

\* the file records left to process after one has thrown
afterFailure(remaining) == Tail(remaining)

(***************************************************************************)
(* BackupManager (utils/backup.ts).  Its operations are functions of the   *)
(* world they run in: the working tree, the git repository and the backup  *)
(* store under .nextjs16-migrator/backups.                                 *)
(***************************************************************************)
World ==
    [files |-> files, commits |-> commits, head |-> head,
     metadataExists |-> metadataExists, metadata |-> metadata,
     backupDirs |-> backupDirs]

NoCommit == 0       \* CommitResult.commit is '' when git created no commit
NoFailure == -1     \* no copy of createFilesBackup fails

NoStore == [metadataExists |-> FALSE, metadata |-> <<>>, dirs |-> EmptyTree]

\* what git sees of the backup store: nothing when it is ignored, and no empty directory
StoreOf(w) ==
    IF storeIgnored THEN NoStore
    ELSE [metadataExists |-> w.metadataExists,
          metadata |-> w.metadata,
          dirs |-> Within(w.backupDirs,
                          {d \in DOMAIN w.backupDirs : w.backupDirs[d] # EmptyTree})]

\* the tree `git add .` stages
WorkTree(w) == [files |-> w.files, store |-> StoreOf(w)]

HeadTree(w) ==
    IF w.head = NoCommit THEN [files |-> EmptyTree, store |-> NoStore]
    ELSE w.commits[w.head]

\* git.status().files.length > 0
HasUncommittedChanges(w) == WorkTree(w) # HeadTree(w)

\* a commit that is made also when nothing is staged (git commit --allow-empty)
gitCommitAllowEmpty(w) ==
    [w |-> [w EXCEPT !.commits = Append(@, WorkTree(w)),
                     !.head = Len(w.commits) + 1],
     commit |-> Len(w.commits) + 1]

\* git.add('.') and git.commit(message): git makes no commit when nothing is staged
\* (no --allow-empty is passed), and the CommitResult then carries no commit id
gitCommit(w) ==
    IF WorkTree(w) = HeadTree(w)
    THEN [w |-> w, commit |-> NoCommit]
    ELSE [w |-> [w EXCEPT !.commits = Append(@, WorkTree(w)),
                          !.head = Len(w.commits) + 1],
          commit |-> Len(w.commits) + 1]

\* createGitBackup; gitFails: a git call rejects before anything is committed.
\* The backup commit follows an add and commit of everything that was uncommitted,
\* or a clean status, so it finds nothing staged.
createGitBackup(w, gitFails) ==
    IF gitFails
    THEN [w |-> w, gitCommit |-> NoCommit, warnings |-> {"Git backup failed"}]
    ELSE IF ~isRepo
    THEN [w |-> w, gitCommit |-> NoCommit,
          warnings |-> {"Not in a git repository, skipping git backup"}]
    ELSE LET dirty == HasUncommittedChanges(w)
             w1 == IF dirty THEN gitCommit(w).w ELSE w
             c == gitCommit(w1)
         IN  [w |-> c.w, gitCommit |-> c.commit,
              warnings |-> IF dirty THEN {"Uncommitted changes detected"} ELSE {}]

\* the allowlist of createFilesBackup
FilesToBackup ==
    <<"package.json", "package-lock.json", "yarn.lock", "next.config.js",
      "next.config.ts", "tsconfig.json", "tailwind.config.js", "tailwind.config.ts",
      ".env.local", ".env", "middleware.ts", "proxy.ts">>

RECURSIVE copyAll(_, _, _)
copyAll(dir, tree, names) ==
    IF names = <<>> THEN dir
    ELSE copyAll(CopyInto(dir, Head(names), tree[Head(names)]), tree, Tail(names))

\* createFilesBackup; failAt is the number of copies made before an fs.copy rejects
createFilesBackup(w, backupId, failAt) ==
    LET existing == IF backupId \in DOMAIN w.backupDirs THEN w.backupDirs[backupId]
                    ELSE EmptyTree
        present == SelectSeq(FilesToBackup, LAMBDA f : f \in DOMAIN w.files)
        threw == failAt # NoFailure /\ failAt < Len(present)
        copied == IF threw THEN SubSeq(present, 1, failAt) ELSE present
    IN  [w |-> [w EXCEPT !.backupDirs =
                    (backupId :> copyAll(existing, w.files, copied)) @@ @],
         threw |-> threw,
         filesBackup |-> backupId]

\* an insertion at the end of the list
push(backup, list) == Append(list, backup)

\* metadata.unshift(backup)
unshift(backup, list) == <<backup>> \o list

\* metadata = metadata.slice(0, 10) when it is longer than 10
keepLast(list) ==
    IF Len(list) > CatalogCap THEN SubSeq(list, 1, CatalogCap) ELSE list

saveBackupMetadata(w, backup) ==
    LET read == IF w.metadataExists THEN w.metadata ELSE <<>>
    IN  [w EXCEPT !.metadataExists = TRUE,
                  !.metadata = keepLast(unshift(backup, read))]

\* createBackup called when Date.now() is t
createBackup(w, t, gitFails, failAt) ==
    LET g == createGitBackup(w, gitFails)
        f == createFilesBackup(g.w, t, failAt)
        backup == [id |-> t, timestamp |-> t, description |-> "Pre-migration backup",
                   gitCommit |-> g.gitCommit, filesBackup |-> f.filesBackup]
    IN  IF f.threw
        THEN [w |-> f.w, threw |-> TRUE, backupId |-> t, warnings |-> g.warnings,
              saved |-> <<>>]
        ELSE [w |-> saveBackupMetadata(f.w, backup), threw |-> FALSE, backupId |-> t,
              warnings |-> g.warnings, saved |-> <<backup>>]

listBackups(w) == IF ~w.metadataExists THEN <<>> ELSE w.metadata

\* a lookup that falls back to the newest entry
findOrNewest(backups, backupId) ==
    IF \E i \in 1..Len(backups) : backups[i].id = backupId
    THEN SelectSeq(backups, LAMBDA b : b.id = backupId)
    ELSE backups

\* backups.find(b => b.id === backupId): the entries with the id, the first is the match
find(backups, backupId) == SelectSeq(backups, LAMBDA b : b.id = backupId)

\* git reset --hard: tracked paths take the target's content, untracked paths stay
ResetTree(current, tracked, target) == target @@ Without(current, DOMAIN tracked)

gitResetHard(w, commit) ==
    LET target == w.commits[commit]
        tracked == HeadTree(w)
        ids == DOMAIN target.store.dirs \cup DOMAIN w.backupDirs
        keepStore == storeIgnored
        dirOf(tree, d) == IF d \in DOMAIN tree THEN tree[d] ELSE EmptyTree
        newDirs == [d \in ids |->
                       ResetTree(dirOf(w.backupDirs, d), dirOf(tracked.store.dirs, d),
                                 dirOf(target.store.dirs, d))]
        metaTracked == tracked.store.metadataExists \/ target.store.metadataExists
    IN  [w EXCEPT !.files = ResetTree(w.files, tracked.files, target.files),
                  !.head = commit,
                  !.metadataExists = IF keepStore \/ ~metaTracked THEN @
                                     ELSE target.store.metadataExists,
                  !.metadata = IF keepStore \/ ~metaTracked THEN @
                               ELSE target.store.metadata,
                  !.backupDirs = IF keepStore THEN @
                                 ELSE Within(newDirs,
                                        {d \in ids : newDirs[d] # EmptyTree
                                                     \/ (d \in DOMAIN w.backupDirs
                                                         /\ w.backupDirs[d] = EmptyTree)})]

\* restoreBackup: the world it leaves, whether it threw, and the steps it carried out
restoreBackup(w, backupId, resetFails) ==
    LET matches == find(listBackups(w), backupId) IN
    IF matches = <<>>
    THEN [w |-> w, threw |-> TRUE, message |-> "Backup not found",
          gitRestored |-> FALSE, filesRestored |-> FALSE, warnings |-> {}]
    ELSE LET backup == Head(matches)
             doReset == backup.gitCommit # NoCommit /\ ~resetFails
             w1 == IF doReset THEN gitResetHard(w, backup.gitCommit) ELSE w
             hasDir == backup.filesBackup \in DOMAIN w1.backupDirs
             w2 == IF hasDir
                   THEN [w1 EXCEPT !.files = w1.backupDirs[backup.filesBackup] @@ @]
                   ELSE w1
         IN  [w |-> w2, threw |-> FALSE, message |-> "",
              gitRestored |-> doReset, filesRestored |-> hasDir,
              warnings |-> IF backup.gitCommit # NoCommit /\ resetFails
                           THEN {"Git restore failed"} ELSE {}]

\* the number of entries cleanup keeps
CleanupKeep == 5

\* cleanup: removes the directory of every entry after the fifth, then writes the
\* first five entries back; nothing happens to a catalog of five entries or fewer
cleanup(w) ==
    LET backups == listBackups(w) IN
    IF Len(backups) > CleanupKeep
    THEN LET toDelete == SubSeq(backups, CleanupKeep + 1, Len(backups))
             removed == {toDelete[i].filesBackup : i \in 1..Len(toDelete)}
         IN  [w EXCEPT !.backupDirs = Without(@, removed),
                       !.metadataExists = TRUE,
                       !.metadata = SubSeq(backups, 1, CleanupKeep)]
    ELSE w

(***************************************************************************)
(* Project trees the exploration starts from and the edits a user makes.   *)
(***************************************************************************)
ManifestSamples ==
    {Manifest(Ver("^", <<15, 0, 0>>), {}), Manifest(Ver("", <<13, 5, 0>>), {})}

MiddlewareSamples ==
    {Src({"export default function middleware"}),
     Src({"export default function middleware", "syntax error"})}

PageSamples ==
    {Src({}),
     Src({"revalidateTag(x)"}),
     Src({"import 'next/legacy/image'"}),
     Src({"params.id"}),
     Src({"{ searchParams }"}),
     Src({"cookies()"}),
     Src({"revalidateTag(x)", "params.id", "cookies()"}),
     Src({"params.id", "syntax error"})}

ProjectFiles == {"package.json", "middleware.ts", "app/page.tsx"}

SamplesOf(f) ==
    CASE f = "package.json" -> ManifestSamples
      [] f = "middleware.ts" -> MiddlewareSamples
      [] f = "app/page.tsx" -> PageSamples

AllSamples == ManifestSamples \cup MiddlewareSamples \cup PageSamples

Trees ==
    UNION {{t \in [S -> AllSamples] : \A f \in S : t[f] \in SamplesOf(f)} :
           S \in SUBSET ProjectFiles}

NodeVersions == {18, 20}

ReportContent == Src({"migration report"})

EmptyLog ==
    [backupAttempted |-> FALSE, backupFailed |-> FALSE, migrateCalled |-> FALSE,
     previewCalled |-> FALSE, perfBaseline |-> FALSE, wrote |-> {}, ran |-> {},
     warnings |-> {}, report |-> <<>>, backupId |-> 0,
     gitRestored |-> FALSE, filesRestored |-> FALSE, transformed |-> {}]

NoOpts ==
    [dryRun |-> FALSE, yes |-> FALSE, backup |-> TRUE, performance |-> FALSE,
     batch |-> FALSE]

MigrateOptions ==
    [dryRun : BOOLEAN, yes : BOOLEAN, backup : BOOLEAN, performance : BOOLEAN,
     batch : BOOLEAN]

\* the repository a run starts in: none, one without a commit, or a clean one
InitGit ==
    \/ /\ isRepo = FALSE /\ storeIgnored = FALSE
       /\ commits = <<>> /\ head = NoCommit
    \/ /\ isRepo = TRUE /\ storeIgnored \in BOOLEAN
       /\ \/ commits = <<>> /\ head = NoCommit
          \/ commits = <<[files |-> files, store |-> NoStore]>> /\ head = 1

InitRest ==
    /\ metadataExists = FALSE
    /\ metadata = <<>>
    /\ backupDirs = EmptyTree
    /\ now = 0
    /\ pc = "idle"
    /\ opts = NoOpts
    /\ analysis = NoAnalysis
    /\ queue = <<>>
    /\ result = EmptyResult
    /\ outcome = "none"
    /\ log = EmptyLog
    /\ pre = [files |-> files, commits |-> commits, head |-> head,
              metadataExists |-> FALSE, metadata |-> <<>>, backupDirs |-> EmptyTree]
    /\ created = <<>>
    /\ ops = 0
    /\ reports = <<>>
    /\ inflight = <<>>

Init ==
    /\ files \in Trees
    /\ nodeMajor \in NodeVersions
    /\ InitGit
    /\ InitRest

\* the world after an operation of the backup manager
SetWorld(w) ==
    /\ files' = w.files
    /\ commits' = w.commits
    /\ head' = w.head
    /\ metadataExists' = w.metadataExists
    /\ metadata' = w.metadata
    /\ backupDirs' = w.backupDirs

\* the record kept of a saved backup
Taken(saved, tree) == [i \in 1..Len(saved) |-> [backup |-> saved[i], tree |-> tree]]

FailurePoints == {NoFailure} \cup (0 .. Len(FilesToBackup) - 1)

(***************************************************************************)
(* migrateCommand (cli/commands/migrate.ts), one action per step between   *)
(* its awaits.                                                             *)
(***************************************************************************)

\* a gate that lets every project through
gateNeverRefuses(a) == FALSE

\* if (!analysis.isCompatible) return
gateRefuses(a) == ~a.isCompatible

\* a command that never takes the backup step
backupNeverWanted(o) == FALSE

\* if (options.backup !== false)
backupWanted(o) == o.backup # FALSE

\* if (!options.batch && !options.yes)
mustConfirm(o) == ~o.batch /\ ~o.yes

\* step 1: analysis and the compatibility gate
CmdStart ==
    /\ pc = "idle"
    /\ opts' \in MigrateOptions
    /\ analysis' = analyze(files, nodeMajor)
    /\ pre' = World
    /\ log' = EmptyLog
    /\ queue' = <<>>
    /\ result' = EmptyResult
    /\ IF gateRefuses(analysis')
       THEN pc' = "done" /\ outcome' = "Project is not compatible"
       ELSE pc' = "backup" /\ outcome' = "running"
    /\ UNCHANGED <<reports, inflight, files, nodeMajor, isRepo, storeIgnored, commits, head,
                   metadataExists, metadata, backupDirs, now, created, ops>>

\* step 2 with backups: createBackup, whose exception ends the command
CmdBackup ==
    /\ pc = "backup"
    /\ backupWanted(opts)
    /\ \E gitFails \in BOOLEAN, failAt \in FailurePoints :
         LET r == createBackup(World, now + 1, gitFails, failAt) IN
         /\ failAt = NoFailure \/ r.threw
         /\ SetWorld(r.w)
         /\ now' = now + 1
         /\ created' = created \o Taken(r.saved, files)
         /\ log' = [log EXCEPT !.backupAttempted = TRUE,
                               !.backupFailed = r.threw \/ gitFails,
                               !.backupId = r.backupId,
                               !.warnings = @ \cup r.warnings]
         /\ IF r.threw
            THEN pc' = "done" /\ outcome' = "Migration failed"
            ELSE pc' = "confirm" /\ outcome' = outcome
    /\ UNCHANGED <<reports, inflight, nodeMajor, isRepo, storeIgnored, opts, analysis, queue, result,
                   pre, ops>>

\* step 2 with --no-backup
CmdSkipBackup ==
    /\ pc = "backup"
    /\ ~backupWanted(opts)
    /\ pc' = "confirm"
    /\ UNCHANGED <<reports, inflight, files, nodeMajor, isRepo, storeIgnored, commits, head,
                   metadataExists, metadata, backupDirs, now, opts, analysis, queue,
                   result, outcome, log, pre, created, ops>>

\* steps 3 and 4: the confirmation prompt, then the performance baseline
CmdConfirm ==
    /\ pc = "confirm"
    /\ \E proceed \in BOOLEAN :
         /\ mustConfirm(opts) \/ proceed
         /\ IF mustConfirm(opts) /\ ~proceed
            THEN pc' = "done" /\ outcome' = "Migration cancelled" /\ log' = log
            ELSE /\ pc' = "execute" /\ outcome' = outcome
                 /\ log' = [log EXCEPT !.perfBaseline = opts.performance]
    /\ UNCHANGED <<reports, inflight, files, nodeMajor, isRepo, storeIgnored, commits, head,
                   metadataExists, metadata, backupDirs, now, opts, analysis, queue,
                   result, pre, created, ops>>

\* step 5 with --dry-run: previewChanges
CmdDryRun ==
    /\ pc = "execute"
    /\ opts.dryRun
    /\ LET r == previewChanges(files, nodeMajor) IN
         /\ files' = r.tree
         /\ result' = [EmptyResult EXCEPT !.changes = r.changes]
         /\ log' = [log EXCEPT !.previewCalled = TRUE,
                               !.wrote = @ \cup r.wrote,
                               !.ran = @ \cup r.ran]
    /\ pc' = "done"
    /\ outcome' = "Dry-run completed"
    /\ UNCHANGED <<reports, inflight, nodeMajor, isRepo, storeIgnored, commits, head, metadataExists,
                   metadata, backupDirs, now, opts, analysis, queue, pre, created, ops>>

\* step 5: MigrationEngine.migrate up to its loop
EngineBegin ==
    /\ pc = "execute"
    /\ ~opts.dryRun
    /\ queue' = analyze(files, nodeMajor).filesToTransform
    /\ result' = EmptyResult
    /\ log' = [log EXCEPT !.migrateCalled = TRUE, !.report = queue']
    /\ pc' = "migrating"
    /\ UNCHANGED <<reports, inflight, files, nodeMajor, isRepo, storeIgnored, commits, head,
                   metadataExists, metadata, backupDirs, now, opts, analysis, outcome,
                   pre, created, ops>>

\* one iteration of migrate's loop: transformFile on the next file record
EngineFile ==
    /\ pc = "migrating"
    /\ queue # <<>>
    /\ LET f == Head(queue)
           r == transformFile(files, f)
       IN  /\ files' = r.tree
           /\ result' = migrateOne(result, f, r)
           /\ queue' = IF r.threw THEN afterFailure(queue) ELSE Tail(queue)
           /\ log' = [log EXCEPT !.wrote = @ \cup r.wrote,
                                 !.ran = @ \cup {<<f.path, r.ran[i]>> :
                                                 i \in 1..Len(r.ran)}]
    /\ UNCHANGED <<reports, inflight, nodeMajor, isRepo, storeIgnored, commits, head, metadataExists,
                   metadata, backupDirs, now, pc, opts, analysis, outcome, pre,
                   created, ops>>

\* steps 6 to 8: migrate has returned; post-analysis and the HTML report
CmdFinish ==
    /\ pc = "migrating"
    /\ queue = <<>>
    /\ files' = CopyInto(files, "migration-report.html", ReportContent)
    /\ pc' = "done"
    /\ outcome' = "Migration completed"
    /\ UNCHANGED <<reports, inflight, nodeMajor, isRepo, storeIgnored, commits, head, metadataExists,
                   metadata, backupDirs, now, opts, analysis, queue, result, log, pre,
                   created, ops>>

Next ==
    \/ CmdStart
    \/ CmdBackup
    \/ CmdSkipBackup
    \/ CmdConfirm
    \/ CmdDryRun
    \/ EngineBegin
    \/ EngineFile
    \/ CmdFinish

Spec == Init /\ [][Next]_vars

(***************************************************************************)
(* Properties of the migrate command and the rewrite engine, under Spec.   *)
(***************************************************************************)
MigrateReturned == pc = "done" /\ outcome = "Migration completed"

ErrorFiles == {result.errors[i].file : i \in 1..Len(result.errors)}

\* C1: while the analysis of step 1 says isCompatible = false, the command has not
\* called createBackup, has not called migrate or previewChanges, has written no
\* file, and the tree, the catalog and the history are those it started with,
\* whatever its options.
C1_CompatibilityGate ==
    (pc # "idle" /\ ~analysis.isCompatible) =>
        /\ ~log.backupAttempted
        /\ ~log.migrateCalled
        /\ ~log.previewCalled
        /\ log.wrote = {}
        /\ World = pre

\* an incompatible project with files to rewrite, run with --yes --batch --no-backup
C1_Witness ==
    /\ pc = "done"
    /\ outcome = "Project is not compatible"
    /\ opts.yes /\ opts.batch /\ ~opts.backup /\ ~opts.dryRun
    /\ analysis.filesToTransform # <<>>

\* C2: in a run whose backups are not skipped, the engine has written a file only
\* if createBackup was attempted before.
C2_SnapshotBeforeMutation ==
    (pc # "idle" /\ opts.backup /\ log.wrote # {}) => log.backupAttempted

\* a run with backups in which the engine has rewritten a file
C2_Witness ==
    /\ opts.backup
    /\ log.backupAttempted
    /\ log.wrote # {}

\* C6: the step that calls previewChanges leaves every file's content, the set of
\* files, the catalog and the snapshot directories as they were, and runs no rule.
C6_PreviewWritesNothing ==
    [][(log'.previewCalled /\ ~log.previewCalled) =>
          /\ files' = files
          /\ DOMAIN files' = DOMAIN files
          /\ metadataExists' = metadataExists
          /\ metadata' = metadata
          /\ backupDirs' = backupDirs
          /\ log'.wrote = log.wrote
          /\ log'.ran = log.ran]_vars

\* a preview that listed changes for a tree with detected tags
C6_Witness ==
    /\ log.previewCalled
    /\ outcome = "Dry-run completed"
    /\ result.changes # <<>>

\* C7: when migrate has returned, every file record was processed, and each file
\* ended as transformFile leaves it when run on that file alone: a file whose rule
\* throws has an error entry and its content unchanged, every other file has its
\* rewritten content and no error entry.
C7_FailureIsolation ==
    MigrateReturned =>
        /\ result.successful + result.failed = Len(log.report)
        /\ \A i \in 1..Len(log.report) :
             LET f == log.report[i]
                 alone == transformFile(pre.files, f)
             IN  IF alone.threw
                 THEN /\ f.path \in ErrorFiles
                      /\ files[f.path] = pre.files[f.path]
                 ELSE /\ f.path \notin ErrorFiles
                      /\ files[f.path] = alone.tree[f.path]

\* the first file of the report failed and the second one was rewritten
C7_Witness ==
    /\ MigrateReturned
    /\ Len(log.report) = 2
    /\ log.report[1].path \in ErrorFiles
    /\ log.report[2].path \in log.wrote

\* C8: after migrate, the analyzer detects on a file that had no error none of the
\* tags that were applied to it.
C8_DetectionIdempotent ==
    MigrateReturned =>
        \A i \in 1..Len(log.report) :
            LET f == log.report[i]
                again == analyzeFile(f.path, files[f.path]).transformations
            IN  f.path \notin ErrorFiles =>
                    \A j \in 1..Len(f.transformations) :
                        \A k \in 1..Len(again) : again[k] # f.transformations[j]

\* C9: when a step of createBackup has failed, a warning was logged and the command
\* has not failed.
C9_SnapshotFailureNeverBlocks ==
    (log.backupAttempted /\ log.backupFailed) =>
        /\ log.warnings # {}
        /\ outcome # "Migration failed"

\* C17: when the command has ended because the user declined the confirmation,
\* the working tree, the git history and the backup store (catalog and snapshot
\* directories) are those the command started with.
C17_CancelIsSafe ==
    (pc = "done" /\ outcome = "Migration cancelled") => World = pre

\* C20: when migrate has returned for a project with middleware.ts, the file is
\* named proxy.ts if its rewrite succeeded, and it is still named middleware.ts,
\* with no proxy.ts beside it, if its rewrite failed.
C20_RenameAfterRewrite ==
    (MigrateReturned /\ "middleware.ts" \in DOMAIN pre.files) =>
        IF "middleware.ts" \in ErrorFiles
        THEN "middleware.ts" \in DOMAIN files /\ "proxy.ts" \notin DOMAIN files
        ELSE "proxy.ts" \in DOMAIN files /\ "middleware.ts" \notin DOMAIN files

\* C24: when a dry run whose backups are not skipped has ended, the working tree,
\* the git history and the backup store (catalog and snapshot directories) are
\* those the command started with: no snapshot directory, catalog entry or
\* commit was created and no project file was written.
C24_DryRunChangesNothing ==
    (pc = "done" /\ outcome = "Dry-run completed" /\ opts.dryRun /\ opts.backup) =>
        World = pre

\* the paths of the file records migrate went through
ReportPaths == {log.report[i].path : i \in 1..Len(log.report)}

\* C28: when migrate has returned, successful + failed is the number of file
\* records of the analysis it ran, errors has one entry per failed file and as
\* many entries as failed says, the files without an error entry are as many as
\* successful says, and every change names one of them.
C28_PreciseAccounting ==
    MigrateReturned =>
        /\ result.successful + result.failed = Len(log.report)
        /\ Len(result.errors) = result.failed
        /\ \A i, j \in 1..Len(result.errors) :
              result.errors[i].file = result.errors[j].file => i = j
        /\ ErrorFiles \subseteq ReportPaths
        /\ Cardinality(ReportPaths \ ErrorFiles) = result.successful
        /\ \A k \in 1..Len(result.changes) :
              result.changes[k].file \in ReportPaths \ ErrorFiles

\* a run in which one file failed and another one was rewritten
C28_Witness ==
    /\ MigrateReturned
    /\ result.failed >= 1
    /\ result.successful >= 1
    /\ result.changes # <<>>

\* C21: when migrate has returned, the files it wrote are exactly the files of the
\* report whose tags were all applied without error and whose rewritten text
\* differs from the text they had when migrate began; no other file was written.
C21_WriteOnlyOnChange ==
    MigrateReturned =>
        /\ log.wrote \subseteq ReportPaths
        /\ \A i \in 1..Len(log.report) :
              LET f == log.report[i]
                  source == pre.files[f.path]
                  r == applyTransformations(source, f.transformations)
              IN  (f.path \in log.wrote) <=> (r.failedAt = "" /\ r.source # source)

\* a file whose tag was applied without changing its text, beside a rewritten one
C21_Witness ==
    /\ MigrateReturned
    /\ result.failed = 0
    /\ \E i \in 1..Len(log.report) : log.report[i].path \in log.wrote
    /\ \E i \in 1..Len(log.report) :
          /\ log.report[i].path \notin log.wrote
          /\ files[log.report[i].path] = pre.files[log.report[i].path]

(***************************************************************************)
(* The action of `migrate` in cli/index.ts around migrateCommand.          *)
(***************************************************************************)

\* migrateCommand's catch reports 'Migration failed' and rethrows; every other end of
\* the command is a return
migrateCommandThrew == outcome = "Migration failed"

\* process.exit(1) in the action's catch; otherwise the process ends with status 0
exitCode == IF migrateCommandThrew THEN 1 ELSE 0

\* spinner.succeed('Migration completed successfully!') after migrateCommand returned
successMessage == ~migrateCommandThrew

\* the ends of migrateCommand at which it has reported a failure
ReportedFailures == {"Project is not compatible", "Migration failed"}

\* C11: when the migrate command has ended after reporting a failure, the process
\* exits with status 1 and prints no success message; it exits with status 0 only
\* when it reported none.
C11_ExitStatus ==
    pc = "done" =>
        /\ outcome \in ReportedFailures => (exitCode = 1 /\ ~successMessage)
        /\ exitCode = 0 => outcome \notin ReportedFailures

(***************************************************************************)
(* The backup manager called directly (as rollbackCommand and a caller of  *)
(* the API do), with a user editing files between the calls.               *)
(***************************************************************************)
BaseTree ==
    [f \in ProjectFiles |->
        CASE f = "package.json" -> Manifest(Ver("^", <<15, 0, 0>>), {})
          [] f = "middleware.ts" -> Src({"export default function middleware"})
          [] f = "app/page.tsx" -> Src({"params.id"})]

EditSamples(f) ==
    CASE f = "package.json" -> ManifestSamples
      [] f = "middleware.ts" -> MiddlewareSamples
      [] f = "app/page.tsx" -> {Src({"params.id"}), Src({"(await params).id"})}

InitBackup ==
    /\ files = BaseTree
    /\ nodeMajor = 20
    /\ InitGit
    /\ InitRest

\* createBackup, at least a millisecond after the previous one
CallCreateBackup ==
    /\ pc = "idle"
    /\ ops < MaxOps
    /\ \E gitFails \in BOOLEAN, failAt \in FailurePoints :
         LET r == createBackup(World, now + 1, gitFails, failAt) IN
         /\ failAt = NoFailure \/ r.threw
         /\ SetWorld(r.w)
         /\ created' = created \o Taken(r.saved, files)
         /\ log' = [EmptyLog EXCEPT !.backupAttempted = TRUE,
                                    !.backupFailed = r.threw \/ gitFails,
                                    !.backupId = r.backupId,
                                    !.warnings = r.warnings]
         /\ outcome' = IF r.threw THEN "createBackup threw"
                       ELSE "createBackup returned"
    /\ now' = now + 1
    /\ pre' = World
    /\ ops' = ops + 1
    /\ UNCHANGED <<reports, inflight, nodeMajor, isRepo, storeIgnored, pc, opts, analysis, queue, result>>

\* restoreBackup(id), with an id createBackup returned or one it never returned
CallRestoreBackup ==
    /\ pc = "idle"
    /\ ops < MaxOps
    /\ \E id \in 1..(now + 1), resetFails \in BOOLEAN :
         LET r == restoreBackup(World, id, resetFails) IN
         /\ SetWorld(r.w)
         /\ log' = [EmptyLog EXCEPT !.backupId = id,
                                    !.gitRestored = r.gitRestored,
                                    !.filesRestored = r.filesRestored,
                                    !.warnings = r.warnings]
         /\ outcome' = IF r.threw THEN "restoreBackup threw"
                       ELSE "restoreBackup returned"
    /\ pre' = World
    /\ ops' = ops + 1
    /\ UNCHANGED <<reports, inflight, nodeMajor, isRepo, storeIgnored, now, pc, opts, analysis, queue,
                   result, created>>

\* the user changes or creates a file
UserEdit ==
    /\ pc = "idle"
    /\ ops < MaxOps
    /\ \E f \in ProjectFiles :
         \E content \in EditSamples(f) :
            /\ f \notin DOMAIN files \/ files[f] # content
            /\ files' = CopyInto(files, f, content)
    /\ outcome' = "edited"
    /\ log' = EmptyLog
    /\ pre' = World
    /\ ops' = ops + 1
    /\ UNCHANGED <<reports, inflight, nodeMajor, isRepo, storeIgnored, commits, head, metadataExists,
                   metadata, backupDirs, now, pc, opts, analysis, queue, result,
                   created>>

NextBackup ==
    \/ CallCreateBackup
    \/ CallRestoreBackup
    \/ UserEdit

SpecBackup == InitBackup /\ [][NextBackup]_vars

(***************************************************************************)
(* The catalog under a run of createBackup calls, two of which may fall    *)
(* into the same millisecond.                                              *)
(***************************************************************************)
CatalogCreate ==
    /\ pc = "idle"
    /\ ops < MaxCreates
    /\ \E dt \in {0, 1} :
         LET r == createBackup(World, now + dt, FALSE, NoFailure) IN
         /\ SetWorld(r.w)
         /\ now' = now + dt
         /\ created' = created \o Taken(r.saved, files)
         /\ log' = [EmptyLog EXCEPT !.backupAttempted = TRUE,
                                    !.backupId = r.backupId,
                                    !.warnings = r.warnings]
         /\ outcome' = "createBackup returned"
    /\ pre' = World
    /\ ops' = ops + 1
    /\ UNCHANGED <<reports, inflight, nodeMajor, isRepo, storeIgnored, pc, opts, analysis, queue, result>>

NextCatalog == CatalogCreate

SpecCatalog == InitBackup /\ [][NextCatalog]_vars

(***************************************************************************)
(* createBackup and cleanup calls in any order.                            *)
(***************************************************************************)
CallCleanup ==
    /\ pc = "idle"
    /\ ops < MaxCreates
    /\ SetWorld(cleanup(World))
    /\ outcome' = "cleanup returned"
    /\ log' = EmptyLog
    /\ pre' = World
    /\ ops' = ops + 1
    /\ UNCHANGED <<reports, inflight, nodeMajor, isRepo, storeIgnored, now, pc, opts, analysis, queue,
                   result, created>>

NextCleanup ==
    \/ CatalogCreate
    \/ CallCleanup

SpecCleanup == InitBackup /\ [][NextCleanup]_vars

(***************************************************************************)
(* Properties of the backup manager.                                       *)
(***************************************************************************)
RestoreOutcomes == {"restoreBackup returned", "restoreBackup threw"}

\* C3: when restoreBackup(id) has returned, every file that existed when the
\* snapshot with that id was taken has the content it had then.
C3_RoundTrip ==
    outcome = "restoreBackup returned" =>
        \A i \in 1..Len(created) :
            created[i].backup.id = log.backupId =>
                \A f \in DOMAIN created[i].tree :
                    f \in DOMAIN files /\ files[f] = created[i].tree[f]

\* C4: after n createBackup calls listBackups returns the min(n, 10) snapshots
\* created last, the newest first.
C4_CatalogBoundAndOrder ==
    LET n == Len(created)
        k == IF n < 10 THEN n ELSE 10
    IN  listBackups(World) = [i \in 1..k |-> created[n - i + 1].backup]

\* eleven createBackup calls, ten entries in the catalog
C4_Witness ==
    /\ Len(created) = 11
    /\ Len(listBackups(World)) = 10
    /\ listBackups(World)[1] = created[11].backup

\* C5: restoreBackup with an id that was not in the catalog has thrown, and the
\* tree, the history and the backup store are as they were before the call.
C5_UnknownIdLeavesTree ==
    (outcome \in RestoreOutcomes
        /\ \A i \in 1..Len(pre.metadata) : pre.metadata[i].id # log.backupId) =>
        /\ outcome = "restoreBackup threw"
        /\ World = pre

\* an unknown id, while a snapshot holds a file whose content has changed since
C5_Witness ==
    /\ outcome = "restoreBackup threw"
    /\ \A i \in 1..Len(metadata) : metadata[i].id # log.backupId
    /\ \E d \in DOMAIN backupDirs :
         \E f \in DOMAIN backupDirs[d] : files[f] # backupDirs[d][f]

\* C10: restoreBackup returns no value, so a caller tells a full restore from a
\* partial one only if its normal return means that both steps were carried out.
C10_RestoreOutcomesDistinguishable ==
    outcome = "restoreBackup returned" =>
        log.gitRestored /\ log.filesRestored

\* C12: cleanup called on a catalog of more than 5 entries leaves its first 5
\* entries in their order, leaves no directory of a dropped entry and every
\* directory of a kept entry; called on a catalog of 5 entries or fewer it changes
\* nothing.
C12_CleanupKeepsFive ==
    outcome = "cleanup returned" =>
        LET before == listBackups(pre)
            after == listBackups(World)
        IN  IF Len(before) > 5
            THEN /\ after = SubSeq(before, 1, 5)
                 /\ \A i \in 6..Len(before) :
                        before[i].filesBackup \notin DOMAIN backupDirs
                 /\ \A i \in 1..5 :
                        before[i].filesBackup \in DOMAIN pre.backupDirs =>
                            /\ before[i].filesBackup \in DOMAIN backupDirs
                            /\ backupDirs[before[i].filesBackup]
                                   = pre.backupDirs[before[i].filesBackup]
            ELSE World = pre

\* C25: after any sequence of createBackup calls, also calls within the same
\* millisecond, no two entries of the catalog have the same id and no two
\* entries name the same file-copy directory.
C25_SnapshotIdsUnique ==
    \A i, j \in 1..Len(listBackups(World)) :
        i # j =>
            /\ listBackups(World)[i].id # listBackups(World)[j].id
            /\ listBackups(World)[i].filesBackup # listBackups(World)[j].filesBackup

\* C27: when restoreBackup(id) has returned, the catalog has the entries it had
\* before the call, in the same order, and the file-copy directory of every entry
\* is in place with the files it held, also in a git repository in which a later
\* createBackup has committed the catalog and the directories of earlier snapshots.
C27_RestoreKeepsSnapshots ==
    outcome = "restoreBackup returned" =>
        /\ metadataExists = pre.metadataExists
        /\ listBackups(World) = listBackups(pre)
        /\ \A i \in 1..Len(listBackups(pre)) :
              LET d == listBackups(pre)[i].filesBackup IN
              d \in DOMAIN pre.backupDirs =>
                  d \in DOMAIN backupDirs /\ backupDirs[d] = pre.backupDirs[d]

\* the oldest of two snapshots is restored in a repository whose last commit,
\* made by the second createBackup, holds the catalog and the first snapshot's
\* files
C27_Witness ==
    /\ outcome = "restoreBackup returned"
    /\ isRepo /\ ~storeIgnored
    /\ Len(metadata) >= 2
    /\ log.backupId = metadata[Len(metadata)].id
    /\ log.filesRestored
    /\ head # NoCommit
    /\ HeadTree(World).store.metadata # <<>>
    /\ log.backupId \in DOMAIN HeadTree(World).store.dirs

\* the file-copy directories the catalog entries name
CatalogDirs ==
    {listBackups(World)[i].filesBackup : i \in 1..Len(listBackups(World))}

\* C26: after any sequence of createBackup and cleanup calls the directories
\* under the backup directory are exactly the file-copy directories of the
\* catalog entries.
C26_CatalogAndDiskInStep == DOMAIN backupDirs = CatalogDirs

(***************************************************************************)
(* ProjectAnalyzer.analyze called repeatedly on a project that nobody      *)
(* modifies, one action per step of analyze.                               *)
(***************************************************************************)
AnalyzeManifests ==
    {Manifest(Ver("^", <<15, 0, 0>>), {}),
     Manifest(Ver("", <<13, 5, 0>>), {}),
     Manifest(Ver("", <<13, 5, 0>>), {"next-amp", "next-pwa", "next-seo"}),
     Manifest(Ver("^", <<14, 2, 1>>), {"next-pwa"}),
     Manifest(NoNext, {}),
     Manifest(Ver("", <<15>>), {}),
     Manifest(Ver("^", <<14>>), {}),
     Src({"syntax error"})}

AnalyzeFiles ==
    {"package.json", "middleware.ts", "next.config.js", "pages/about.amp.tsx",
     "app/page.tsx"}

AnalyzeSamplesOf(f) ==
    CASE f = "package.json" -> AnalyzeManifests
      [] f = "middleware.ts" -> {Src({"export default function middleware"})}
      [] f = "next.config.js" -> {Src({}), Src({"experimental.ppr"}), Unreadable}
      [] f = "pages/about.amp.tsx" -> {Src({}), Src({"params.id"})}
      [] f = "app/page.tsx" ->
            {Src({}), Src({"revalidateTag(x)", "params.id", "cookies()"}), Unreadable}

AnalyzeTrees ==
    UNION {{t \in [S -> UNION {AnalyzeSamplesOf(f) : f \in AnalyzeFiles}] :
                \A f \in S : t[f] \in AnalyzeSamplesOf(f)} :
           S \in SUBSET AnalyzeFiles}

InitAnalyze ==
    /\ files \in AnalyzeTrees
    /\ nodeMajor \in NodeVersions
    /\ isRepo = FALSE /\ storeIgnored = FALSE
    /\ commits = <<>> /\ head = NoCommit
    /\ InitRest

\* what a step of analyze leaves unchanged
AnalyzeFrame ==
    UNCHANGED <<files, nodeMajor, isRepo, storeIgnored, commits, head, metadataExists,
                metadata, backupDirs, now, opts, queue, result, log, pre, created,
                inflight>>

\* analyze is called: the analysis object is created
AnalyzeBegin ==
    /\ pc = "idle"
    /\ ops < MaxAnalyses
    /\ analysis' = newAnalysis(analysis)
    /\ pc' = "analyzePackageJson"
    /\ outcome' = "running"
    /\ ops' = ops + 1
    /\ reports' = reports
    /\ AnalyzeFrame

AnalyzePackageJson ==
    /\ pc = "analyzePackageJson"
    /\ IF analyzePackageJsonThrows(files)
       THEN analysis' = analysis /\ pc' = "idle" /\ outcome' = "analyze threw"
       ELSE /\ analysis' = withPackageJson(analysis, files)
            /\ pc' = "findFilesToTransform"
            /\ outcome' = outcome
    /\ UNCHANGED <<ops, reports, inflight>>
    /\ AnalyzeFrame

AnalyzeFindFiles ==
    /\ pc = "findFilesToTransform"
    /\ IF findFilesToTransformThrows(files)
       THEN analysis' = analysis /\ pc' = "idle" /\ outcome' = "analyze threw"
       ELSE /\ analysis' = withFilesToTransform(analysis, files)
            /\ pc' = "checkCompatibility"
            /\ outcome' = outcome
    /\ UNCHANGED <<ops, reports, inflight>>
    /\ AnalyzeFrame

AnalyzeCheckCompatibility ==
    /\ pc = "checkCompatibility"
    /\ IF checkCompatibilityThrows(files)
       THEN analysis' = analysis /\ pc' = "idle" /\ outcome' = "analyze threw"
       ELSE /\ analysis' = withCompatibility(analysis, files, nodeMajor)
            /\ pc' = "calculateComplexity"
            /\ outcome' = outcome
    /\ UNCHANGED <<ops, reports, inflight>>
    /\ AnalyzeFrame

\* calculateComplexity, and analyze returns the object
AnalyzeReturn ==
    /\ pc = "calculateComplexity"
    /\ analysis' = withComplexity(analysis)
    /\ reports' = Append(reports, analysis')
    /\ pc' = "idle"
    /\ outcome' = "analyze returned"
    /\ ops' = ops
    /\ AnalyzeFrame

NextAnalyze ==
    \/ AnalyzeBegin
    \/ AnalyzePackageJson
    \/ AnalyzeFindFiles
    \/ AnalyzeCheckCompatibility
    \/ AnalyzeReturn

SpecAnalyze == InitAnalyze /\ [][NextAnalyze]_vars

(***************************************************************************)
(* Properties of the analyzer, under SpecAnalyze.                          *)
(***************************************************************************)

AnalyzeEnded == ops > 0 /\ pc = "idle"

LastReport == reports[Len(reports)]

DeclaredMajor(version) == version.parts[1]

DeclaresOldNext(tree) ==
    /\ "package.json" \in DOMAIN tree
    /\ tree["package.json"].next # NoNext
    /\ DeclaredMajor(tree["package.json"].next) < 14

\* C15: no step of an analysis sets isCompatible back to true once it is false, and
\* the report analyze returns for a manifest that declares a next version with a
\* major below 14 has isCompatible = false and an issue naming that version.
C15_OldVersionIncompatible ==
    [][/\ (pc # "idle" /\ ~analysis.isCompatible) => ~analysis'.isCompatible
       /\ (outcome' = "analyze returned" /\ DeclaresOldNext(files)) =>
              /\ ~analysis'.isCompatible
              /\ \E i \in 1..Len(analysis'.issues) :
                     analysis'.issues[i] =
                         Issue("Next.js version is too old",
                               files["package.json"].next, "")]_vars

\* next 13.5.0 under a supported runtime: only the manifest step objects
C15_Witness ==
    /\ AnalyzeEnded
    /\ outcome = "analyze returned"
    /\ DeclaresOldNext(files)
    /\ nodeMajor = 20
    /\ ~LastReport.isCompatible
    /\ Len(LastReport.issues) = 1

\* C30: the report analyze returns for a manifest that declares a next version
\* with a major of 14 or higher, written with or without a range prefix and with
\* three numeric components or fewer, has no 'too old' issue, and under a
\* supported runtime it has isCompatible = true.
C30_OnlyOldVersionsRejected ==
    (AnalyzeEnded /\ outcome = "analyze returned"
        /\ "package.json" \in DOMAIN files
        /\ files["package.json"].next # NoNext
        /\ DeclaredMajor(files["package.json"].next) >= 14) =>
        /\ \A i \in 1..Len(LastReport.issues) :
              LastReport.issues[i].kind # "Next.js version is too old"
        /\ nodeMajor >= 20 => LastReport.isCompatible

\* the scanned files whose read rejects
UnreadableFiles(tree) == {f \in DOMAIN tree : readFileFails(tree[f])}

\* C18: every analyze call on a project with a readable manifest has returned a
\* report, and the report's file records are those of the scan of the files that
\* can be read: an unreadable file is skipped and the others are covered.
C18_UnreadableFileSkipped ==
    (AnalyzeEnded /\ ~analyzePackageJsonThrows(files)) =>
        /\ outcome = "analyze returned"
        /\ LastReport.filesToTransform =
               findFilesToTransform(Without(files, UnreadableFiles(files)), ScanOrder)

UsesAmp(tree) == AmpFiles \cap DOMAIN tree # {}

UsesPpr(tree) ==
    \E i \in 1..Len(ConfigFiles) :
        /\ ConfigFiles[i] \in DOMAIN tree
        /\ "experimental.ppr" \in tree[ConfigFiles[i]].feats

Holds(list, kind) == \E i \in 1..Len(list) : list[i].kind = kind

\* C19: the report analyze returns for a project with an AMP file or a next.config
\* that uses experimental.ppr carries the issue and the recommendation of each
\* feature used, has isCompatible = false, and stops migrateCommand at its gate.
C19_RemovedFeaturesBlock ==
    (outcome = "analyze returned" /\ (UsesAmp(files) \/ UsesPpr(files))) =>
        /\ UsesAmp(files) =>
              /\ Holds(LastReport.issues, "AMP support has been removed in Next.js 16")
              /\ Holds(LastReport.recommendations, "Remove AMP files and configurations")
        /\ UsesPpr(files) =>
              /\ Holds(LastReport.issues,
                       "experimental.ppr flag has been removed in Next.js 16")
              /\ Holds(LastReport.recommendations,
                       "Use cacheComponents configuration instead")
        /\ ~LastReport.isCompatible
        /\ gateRefuses(LastReport)

(***************************************************************************)
(* calculateComplexity on analyses of every size up to the bounds: the     *)
(* last step of analyze, taken from an analysis object that the first      *)
(* three steps have filled with f file records and i issues.               *)
(***************************************************************************)
FileRecords(f) ==
    [k \in 1..f |->
        [path |-> "app/" \o ToString(k) \o "/page.tsx", type |-> "component",
         transformations |-> <<"make-params-async">>]]

Issues(i) == [k \in 1..i |-> Issue("Dependency may not be compatible", NoNext, "")]

InitComplexity ==
    /\ files = EmptyTree
    /\ nodeMajor = 20
    /\ isRepo = FALSE /\ storeIgnored = FALSE
    /\ commits = <<>> /\ head = NoCommit
    /\ metadataExists = FALSE /\ metadata = <<>> /\ backupDirs = EmptyTree
    /\ now = 0
    /\ opts = NoOpts
    /\ queue = <<>> /\ result = EmptyResult
    /\ log = EmptyLog
    /\ pre = World
    /\ created = <<>>
    /\ reports = <<>>
    /\ inflight = <<>>
    /\ ops = 1
    /\ pc = "calculateComplexity"
    /\ outcome = "running"
    /\ \E f \in 0..MaxFiles, i \in 0..MaxIssues :
          analysis = [newAnalysis(NoAnalysis) EXCEPT
                         !.filesToTransform = FileRecords(f),
                         !.issues = Issues(i)]

NextComplexity == AnalyzeReturn

SpecComplexity == InitComplexity /\ [][NextComplexity]_vars

\* C16: the report analyze returns has complexity high when it has more than 50
\* file records or more than 5 issues, else medium when it has more than 20 file
\* records or more than 2 issues, else low; and its estimatedTime is the one
\* string of its tier.
C16_ComplexityThresholds ==
    outcome = "analyze returned" =>
        LET f == Len(LastReport.filesToTransform)
            i == Len(LastReport.issues)
            tier == IF f > 50 \/ i > 5 THEN "high"
                    ELSE IF f > 20 \/ i > 2 THEN "medium"
                    ELSE "low"
        IN  /\ LastReport.complexity = tier
            /\ LastReport.estimatedTime =
                   CASE tier = "high" -> "30-60 minutes"
                     [] tier = "medium" -> "15-30 minutes"
                     [] tier = "low" -> "5-15 minutes"

\* 51 file records and no issue
C16_Witness ==
    /\ outcome = "analyze returned"
    /\ Len(LastReport.filesToTransform) = 51
    /\ Len(LastReport.issues) = 0
    /\ LastReport.complexity = "high"

(***************************************************************************)
(* MigrationEngine.migrate step by step: one action per call, rule and     *)
(* return of transformFile.                                                *)
(***************************************************************************)
EnginePages ==
    PageSamples \cup
    {Src({"function Page() (not async)", "params.id", "searchParams.q"}),
     Src({"function Page() (not async)", "revalidateTag(x)", "cookies()"})}

EngineFiles == {"middleware.ts", "pages/about.amp.tsx", "app/page.tsx"}

EngineSamplesOf(f) ==
    CASE f = "middleware.ts" -> MiddlewareSamples
      [] f = "pages/about.amp.tsx" -> {Src({"import 'next/legacy/image'"})}
      [] f = "app/page.tsx" -> EnginePages

EngineTrees ==
    UNION {{t \in [S -> UNION {EngineSamplesOf(f) : f \in EngineFiles}] :
                \A f \in S : t[f] \in EngineSamplesOf(f)} :
           S \in SUBSET EngineFiles}

\* migrate is about to be called on a project nobody else modifies
InitEngine ==
    /\ files \in EngineTrees
    /\ nodeMajor = 20
    /\ isRepo = FALSE /\ storeIgnored = FALSE
    /\ commits = <<>> /\ head = NoCommit
    /\ metadataExists = FALSE /\ metadata = <<>> /\ backupDirs = EmptyTree
    /\ now = 0
    /\ opts = [NoOpts EXCEPT !.backup = FALSE, !.yes = TRUE]
    /\ analysis = analyze(files, nodeMajor)
    /\ queue = <<>> /\ result = EmptyResult
    /\ log = EmptyLog
    /\ pre = World
    /\ created = <<>>
    /\ reports = <<>>
    /\ inflight = <<>>
    /\ ops = 0
    /\ pc = "execute"
    /\ outcome = "running"

\* what a step of migrate's loop leaves unchanged
EngineFrame ==
    UNCHANGED <<nodeMajor, isRepo, storeIgnored, commits, head, metadataExists,
                metadata, backupDirs, now, opts, analysis, pre, created, ops, reports>>

\* a loop that calls transformFile for the next file without awaiting the last call
startsWithoutAwait(calls) == TRUE

\* `await this.transformFile(file)`: the loop goes on when the call has ended
mayStart(calls) == DOMAIN calls = {}

\* the activation of transformFile(fileToTransform): pathExists and readFile
Activation(tree, fileToTransform) ==
    LET exists == fileToTransform.path \in DOMAIN tree
        source == IF exists THEN tree[fileToTransform.path] ELSE Src({})
    IN  [file |-> fileToTransform, exists |-> exists, source |-> source,
         transformedSource |-> source, tags |-> fileToTransform.transformations,
         changes |-> <<>>]

\* migrate's loop calls transformFile for the next file record
FileBegin ==
    /\ pc = "migrating"
    /\ queue # <<>>
    /\ mayStart(inflight)
    /\ inflight' = (Head(queue).path :> Activation(files, Head(queue))) @@ inflight
    /\ queue' = Tail(queue)
    /\ UNCHANGED <<files, pc, outcome, result, log>>
    /\ EngineFrame

\* a loop that writes the text to the file after every rule
writtenThrough(tree, path, transformedSource) ==
    CopyInto(tree, path, transformedSource)

\* the tree after one iteration of transformFile's loop: the rule's output is kept
\* in transformedSource and nothing is written
treeAfterTag(tree, path, transformedSource) == tree

\* one iteration of transformFile's loop: the rule of the next tag rewrites the text
FileTag ==
    /\ pc = "migrating"
    /\ \E p \in DOMAIN inflight :
         LET a == inflight[p] IN
         /\ a.exists
         /\ a.tags # <<>>
         /\ ~TransformerThrows(Head(a.tags), a.transformedSource)
         /\ inflight' =
                [inflight EXCEPT ![p] =
                    [a EXCEPT !.transformedSource = Transformer(Head(a.tags), @),
                              !.tags = Tail(@),
                              !.changes = Append(@, Change(p, Head(a.tags)))]]
         /\ files' = treeAfterTag(files, p, inflight'[p].transformedSource)
         /\ log' = [log EXCEPT !.ran = @ \cup {<<p, Head(a.tags)>>}]
    /\ UNCHANGED <<pc, outcome, queue, result>>
    /\ EngineFrame

\* transformFile throws (file not found, or the rule of the next tag throws) and
\* migrate's catch counts the file as failed
FileFail ==
    /\ pc = "migrating"
    /\ \E p \in DOMAIN inflight :
         LET a == inflight[p]
             missing == ~a.exists
             message == IF missing THEN "File not found" ELSE Head(a.tags)
         IN
         /\ missing \/ (a.tags # <<>>
                         /\ TransformerThrows(Head(a.tags), a.transformedSource))
         /\ inflight' = Without(inflight, {p})
         /\ result' = migrateOne(result, a.file,
                                 [threw |-> TRUE, message |-> message,
                                  changes |-> <<>>])
    /\ UNCHANGED <<files, pc, outcome, queue, log>>
    /\ EngineFrame

\* transformFile writes the text if it changed and returns its changes, and
\* migrate counts the file as successful
FileEnd ==
    /\ pc = "migrating"
    /\ \E p \in DOMAIN inflight :
         LET a == inflight[p]
             write == mustWrite(a.transformedSource, a.source)
         IN
         /\ a.exists
         /\ a.tags = <<>>
         /\ files' = IF write THEN CopyInto(files, p, a.transformedSource) ELSE files
         /\ inflight' = Without(inflight, {p})
         /\ result' = migrateOne(result, a.file,
                                 [threw |-> FALSE, message |-> "",
                                  changes |-> a.changes])
         /\ log' = [log EXCEPT !.wrote = IF write THEN @ \cup {p} ELSE @,
                               !.transformed = @ \cup {p}]
    /\ UNCHANGED <<pc, outcome, queue>>
    /\ EngineFrame

\* migrate returns its result
MigrateReturn ==
    /\ pc = "migrating"
    /\ queue = <<>>
    /\ DOMAIN inflight = {}
    /\ pc' = "done"
    /\ outcome' = "migrate returned"
    /\ UNCHANGED <<files, queue, result, log, inflight>>
    /\ EngineFrame

NextEngine ==
    \/ EngineBegin
    \/ FileBegin
    \/ FileTag
    \/ FileFail
    \/ FileEnd
    \/ MigrateReturn

SpecEngine == InitEngine /\ [][NextEngine]_vars

(***************************************************************************)
(* Properties of migrate, under SpecEngine.                                *)
(***************************************************************************)
EngineReturned == pc = "done" /\ outcome = "migrate returned"

\* the state of a file of the report in the run
FileStatus(p) ==
    IF p \in DOMAIN inflight THEN "Transforming"
    ELSE IF p \in ErrorFiles THEN "Failed"
    ELSE IF p \in log.transformed THEN "Transformed"
    ELSE "Pending"

Terminal == {"Transformed", "Failed"}

StatusSteps ==
    {<<"Pending", "Pending">>, <<"Pending", "Transforming">>,
     <<"Transforming", "Transforming">>, <<"Transforming", "Transformed">>,
     <<"Transforming", "Failed">>, <<"Transformed", "Transformed">>,
     <<"Failed", "Failed">>}

\* C22: in every step of a migrate run at most one file is Transforming; a file
\* record changes state only along Pending -> Transforming -> Transformed or
\* Transforming -> Failed; it becomes Transforming with all its tags ahead of it,
\* in the order of the report, once every record before it has reached Transformed
\* or Failed; while Transforming it takes its tags one by one from the front; no
\* path has two records; and when migrate returns every record is Transformed
\* or Failed.
C22_PerFileStateMachine ==
    [][/\ Cardinality(DOMAIN inflight') <= 1
       /\ \A p \in EngineFiles :
            LET s == FileStatus(p)
                t == FileStatus(p)'
            IN  /\ <<s, t>> \in StatusSteps
                /\ (s = "Transforming" /\ t = "Transforming") =>
                      IF inflight[p].tags = <<>> THEN inflight'[p].tags = <<>>
                      ELSE inflight'[p].tags \in
                               {inflight[p].tags, Tail(inflight[p].tags)}
                /\ \A i \in 1..Len(log'.report) :
                      log'.report[i].path = p =>
                          /\ \A j \in 1..Len(log'.report) :
                                log'.report[j].path = p => j = i
                          /\ (s = "Pending" /\ t = "Transforming") =>
                                /\ inflight'[p].tags = log'.report[i].transformations
                                /\ \A q \in EngineFiles : \A j \in 1..(i - 1) :
                                      log'.report[j].path = q =>
                                          FileStatus(q)' \in Terminal
                          /\ pc' = "done" => t \in Terminal]_vars

\* a run over three files of which one failed and two were transformed
C22_Witness ==
    /\ EngineReturned
    /\ Len(log.report) = 3
    /\ result.failed = 1
    /\ result.successful = 2

\* the entries of a change list that name one of the files
EntriesOf(changes, paths) == SelectSeq(changes, LAMBDA c : c.file \in paths)

\* what previewChanges returns on the tree migrate was called on
PreviewOfPre == previewChanges(pre.files, nodeMajor).changes

\* C23: when migrate has returned, its change list is the list previewChanges
\* returns on the tree it started from, in the same order, without the entries of
\* the files that failed: the two lists are equal when no file failed, and the
\* entries the preview has in addition are, for each failed file, one per tag of
\* its record.
C23_PreviewEqualsMigrate ==
    EngineReturned =>
        /\ result.changes = EntriesOf(PreviewOfPre, ReportPaths \ ErrorFiles)
        /\ result.failed = 0 => result.changes = PreviewOfPre
        /\ \A i \in 1..Len(log.report) :
              LET f == log.report[i] IN
              f.path \in ErrorFiles =>
                  EntriesOf(PreviewOfPre, {f.path}) =
                      [k \in 1..Len(f.transformations) |->
                          Change(f.path, f.transformations[k])]

\* a run in which a file with two tags succeeded and another file failed
C23_Witness ==
    /\ EngineReturned
    /\ result.failed = 1
    /\ Len(result.changes) >= 2
    /\ Len(PreviewOfPre) > Len(result.changes)
    /\ \E i \in 1..Len(log.report) :
          /\ log.report[i].path \notin ErrorFiles
          /\ Len(log.report[i].transformations) >= 2

\* C29: when migrate has returned, every file with an error entry has the
\* content it had when migrate began (a missing file is still missing), was not
\* written, and no change of the result names it, also when rules of earlier tags
\* had been applied to its text before the failing one.
C29_FailedFileUntouched ==
    EngineReturned =>
        \A p \in ErrorFiles :
            /\ p \in DOMAIN files <=> p \in DOMAIN pre.files
            /\ p \in DOMAIN pre.files => files[p] = pre.files[p]
            /\ p \notin log.wrote
            /\ \A k \in 1..Len(result.changes) : result.changes[k].file # p

\* a file failed at a later tag, after the rule of an earlier tag had changed
\* its text in memory
C29_Witness ==
    /\ EngineReturned
    /\ \E p \in ErrorFiles :
          /\ p \in DOMAIN pre.files
          /\ applyTransformations(pre.files[p], <<"make-params-async">>).source
                 # pre.files[p]
          /\ <<p, "make-params-async">> \in log.ran

====
